---- MODULE Spec2Model ----
(* Model of the Jira issues exporter (main.go): the /metrics handler, the   *)
(* refresh cycle of updateMetrics, the paginated fetch, and the status      *)
(* duration aggregation and publishing of transformDataForPrometheus.       *)
(* Time is counted in hours: a timestamp string is a local hour with a zone *)
(* offset, a duration is a number of hours.                                 *)
EXTENDS Integers, Sequences, FiniteSets, TLC

\* ------------------------------------------------------------------ bounds
NumHandlers == 2
MaxRequests == 2
MaxIssues == 2
MaxPage == 1
MaxTime == 2
MaxHist == 2
MaxRuns == 2
MaxInFlight == 3

Handlers == 1..NumHandlers

\* ------------------------------------------------------- values and inputs
\* A timestamp string in jiraTimeFormat: local wall-clock hour and zone offset;
\* valid = FALSE is a string time.Parse rejects.
TS(l, z) == [valid |-> TRUE, local |-> l, zone |-> z]
BadTime == [valid |-> FALSE, local |-> 0, zone |-> 0]

\* The interface{} value of an item's fromString: a JSON string, or a value
\* of another dynamic type (JSON null, a number).
Str(s) == [isString |-> TRUE, str |-> s]
NotAString == [isString |-> FALSE, str |-> ""]

StatusItem(from) == [field |-> "status", fromString |-> Str(from)]
NullStatusItem == [field |-> "status", fromString |-> NotAString]
OtherItem == [field |-> "assignee", fromString |-> Str("nobody")]
History(ts, items) == [created |-> ts, items |-> items]

\* JiraIssue values served by the tracker in the refresh-cycle specifications.
\* Histories are delivered newest first.
IssueDone ==
  [key |-> "P-1", project |-> "P", priority |-> "High", assignee |-> "a@x",
   issueType |-> "Bug", status |-> "Done", statusCategory |-> "Done",
   created |-> TS(0, 0),
   histories |-> << History(TS(3, 0), <<StatusItem("InProgress")>>),
                    History(TS(2, 0), <<OtherItem, StatusItem("Open")>>) >>]
IssueNoHistory ==
  [key |-> "P-2", project |-> "P", priority |-> "High", assignee |-> "a@x",
   issueType |-> "Bug", status |-> "Done", statusCategory |-> "Done",
   created |-> TS(1, 0),
   histories |-> << History(TS(2, 0), <<OtherItem>>) >>]
IssueBlocked ==
  [key |-> "Q-1", project |-> "Q", priority |-> "Low", assignee |-> "b@x",
   issueType |-> "Task", status |-> "Open", statusCategory |-> "To Do",
   created |-> TS(1, 1),
   histories |-> << History(TS(3, 1), <<StatusItem("Blocked")>>),
                    History(TS(1, 0), <<StatusItem("Open")>>) >>]
IssueBadTime ==
  [key |-> "Q-2", project |-> "Q", priority |-> "Low", assignee |-> "b@x",
   issueType |-> "Task", status |-> "Open", statusCategory |-> "To Do",
   created |-> TS(0, 0),
   histories |-> << History(BadTime, <<StatusItem("Open")>>) >>]
IssueNullFrom ==
  [key |-> "Q-3", project |-> "Q", priority |-> "Low", assignee |-> "b@x",
   issueType |-> "Task", status |-> "Open", statusCategory |-> "To Do",
   created |-> TS(0, 0),
   histories |-> << History(TS(2, 0), <<NullStatusItem>>) >>]
IssuePool == {IssueDone, IssueNoHistory, IssueBlocked, IssueBadTime, IssueNullFrom}

\* Bodies of /rest/api/3/status the tracker may answer with.
StatusEntry(n, c) == [name |-> n, category |-> c]
StatusLists ==
  { << StatusEntry("Open", "To Do"), StatusEntry("InProgress", "In Progress"),
       StatusEntry("Done", "Done") >>,
    << StatusEntry("Open", "To Do"), StatusEntry("Open", "New"),
       StatusEntry("InProgress", "In Progress"), StatusEntry("Done", "Done"),
       StatusEntry("Blocked", "In Progress") >> }

RequestErrors == {"FetchError", "DecodeError"}

SeqsUpTo(S, n) == UNION {[1..k -> S] : k \in 0..n}
Min(a, b) == IF a < b THEN a ELSE b

\* Answers to one search page request when n issues were already delivered
\* to this request and m to the requests in flight together:
\* a page, a transport/HTTP failure with nothing decoded, or a decode failure
\* with a partly decoded page.
PageResponses(n, m) ==
  LET room == Min(MaxPage, Min(MaxIssues - n, MaxInFlight - m))
  IN  {[err |-> "none", issues |-> p] : p \in SeqsUpTo(IssuePool, room)}
      \cup {[err |-> "FetchError", issues |-> << >>]}
      \cup {[err |-> "DecodeError", issues |-> p] : p \in SeqsUpTo(IssuePool, Min(room, 1))}

StatusResponses ==
  {[err |-> "none", statuses |-> l] : l \in StatusLists}
  \cup {[err |-> e, statuses |-> << >>] : e \in RequestErrors}

\* ------------------------------------------------------------ pure helpers
EmptyMap == [x \in {} |-> 0]

\* GaugeVec.With(labels): under the vector's lock, creates the series at 0
\* when it is absent, and returns its gauge.
With(vec, lab) ==
  [l \in DOMAIN vec \cup {lab} |-> IF l \in DOMAIN vec THEN vec[l] ELSE 0]

\* A gauge held by a goroutine between With and Inc/Add: its labels, and
\* whether it is still the series of its vector (a Reset deletes the series
\* and leaves the gauge to its holder).
NoGauge == [lab |-> EmptyMap, live |-> FALSE]
Gauge(lab) == [lab |-> lab, live |-> TRUE]

\* Gauge.Inc / Gauge.Add(v) on the gauge g: an atomic add; it shows in the
\* vector while the gauge is still its series.
AddOverwrite(vec, g, v) ==
  IF g.live THEN [vec EXCEPT ![g.lab] = v] ELSE vec
Add(vec, g, v) ==
  IF g.live THEN [vec EXCEPT ![g.lab] = @ + v] ELSE vec

\* GaugeVec.Reset(): deletes every series of the vector.
ResetVecKeep(vec) == vec
ResetVec(vec) == EmptyMap

\* The gauges held by the goroutines at position at, once their vector is vec.
Orphan(gs, pcs, at, vec) ==
  [h \in DOMAIN gs |->
     IF pcs[h] = at /\ gs[h].lab \notin DOMAIN vec
     THEN [gs[h] EXCEPT !.live = FALSE] ELSE gs[h]]

\* slices.Reverse
Reverse(s) == [i \in 1..Len(s) |-> s[Len(s) + 1 - i]]

\* time.Parse(jiraTimeFormat, str): the instant, in hours.
MustTimeParse(ts) == ts.local - ts.zone

\* m[k] += d on a Go map: a key that is absent reads as zero.
MapAdd(m, k, d) ==
  [x \in DOMAIN m \cup {k} |->
     IF x = k THEN (IF k \in DOMAIN m THEN m[k] ELSE 0) + d ELSE m[x]]

\* The inner loop over history.Items; st = [cursor, durs, out]. The type
\* assertion item.FromString.(string) panics on a value that is not a string.
RECURSIVE ItemsLoop(_, _, _, _)
ItemsLoop(items, j, changeTime, st) ==
  IF j > Len(items) \/ st.out # "ok" THEN st
  ELSE IF items[j].field = "status"
       THEN IF ~items[j].fromString.isString
            THEN [st EXCEPT !.out = "panic"]
            ELSE ItemsLoop(items, j + 1, changeTime,
                           [cursor |-> changeTime,
                            durs |-> MapAdd(st.durs, items[j].fromString.str,
                                            changeTime - st.cursor),
                            out |-> "ok"])
       ELSE ItemsLoop(items, j + 1, changeTime, st)

\* The outer loop over issue.Changelog.Histories (already reversed);
\* mustTimeParse exits the process on a timestamp that does not parse.
RECURSIVE HistoriesLoop(_, _, _)
HistoriesLoop(hs, i, st) ==
  IF i > Len(hs) \/ st.out # "ok" THEN st
  ELSE IF ~hs[i].created.valid
       THEN [st EXCEPT !.out = "fatal"]
       ELSE HistoriesLoop(hs, i + 1,
                          ItemsLoop(hs[i].items, 1, MustTimeParse(hs[i].created), st))

\* Lines 280-292 over the histories hs: out = "ok" with the duration map,
\* "fatal" (log.Fatal in mustTimeParse) or "panic" (type assertion), whichever
\* the code reaches first.
DurationsOver(issue, hs) ==
  IF ~issue.created.valid THEN [out |-> "fatal", durs |-> EmptyMap]
  ELSE LET st == HistoriesLoop(hs, 1, [cursor |-> MustTimeParse(issue.created),
                                       durs |-> EmptyMap, out |-> "ok"])
       IN  [out |-> st.out, durs |-> IF st.out = "ok" THEN st.durs ELSE EmptyMap]

\* statusDurations as built by lines 280-292.
StatusDurationsNoReverse(issue) == DurationsOver(issue, issue.histories)
StatusDurations(issue) == DurationsOver(issue, Reverse(issue.histories))

\* Labels of the jira_issue_count series of an issue.
CountLabels(issue) ==
  [project |-> issue.project, priority |-> issue.priority, status |-> issue.status,
   statusCategory |-> issue.statusCategory, assignee |-> issue.assignee,
   issueType |-> issue.issueType]

\* Labels of the jira_issue_hours_in_status_count series of a duration fact.
HoursLabels(issue, status, cat) ==
  [project |-> issue.project, priority |-> issue.priority, assignee |-> issue.assignee,
   issueType |-> issue.issueType, status |-> status, statusCategory |-> cat]

\* buildStatusMap's loop: sm[status.Name] = status.StatusCategory.Name
RECURSIVE FillStatusMap(_, _, _)
FillStatusMap(statuses, i, sm) ==
  IF i > Len(statuses) THEN sm
  ELSE FillStatusMap(statuses, i + 1,
         [n \in DOMAIN sm \cup {statuses[i].name} |->
            IF n = statuses[i].name THEN statuses[i].category ELSE sm[n]])

\* What fetchJiraData returns as issues when a page request fails.
FetchFailResultPartial(acc, chunk) == acc \o chunk
FetchFailResult(acc, chunk) == << >>

\* -------------------------------------------------------------------- state
VARIABLES
  procState,        \* "running" or "exited" (log.Fatal / os.Exit)
  lastErr,          \* kind of the error that was logged, "none" when none
  started,          \* number of /metrics requests accepted so far
  countVec,         \* jiraIssueCount: labels -> value
  durVec,           \* jiraIssueHoursInStatusCount: labels -> hours
  pc,               \* per request: position of its handler goroutine
  statusToCategory, \* per request: updateMetrics' status map
  issues,           \* per request: the issues accumulated / returned by the fetch
  startAt,          \* per request: fetchJiraData's offset
  reqLog,           \* per request: the page requests of its fetch and their answers
  idx,              \* per request: position of the publish loop in issues
  statusDurations,  \* per request: transformDataForPrometheus' duration map
  pending,          \* per request: statuses the range loop has not visited yet
  gauge,            \* per request: the gauge With returned, until Inc/Add
  aggInput,         \* aggregation runs: the issue as it was handed over
  aggIssue,         \* aggregation runs: the caller's issue value now
  aggRun,           \* aggregation runs: number of runs done
  aggOut            \* aggregation runs: the duration map of each run

sharedVars == <<procState, lastErr, started, countVec, durVec>>
localVars == <<pc, statusToCategory, issues, startAt, reqLog, idx, statusDurations, pending, gauge>>
aggVars == <<aggInput, aggIssue, aggRun, aggOut>>
vars == <<procState, lastErr, started, countVec, durVec,
          pc, statusToCategory, issues, startAt, reqLog, idx, statusDurations, pending,
          gauge, aggInput, aggIssue, aggRun, aggOut>>

ExporterInit ==
  /\ procState = "running"
  /\ lastErr = "none"
  /\ started = 0
  /\ countVec = EmptyMap
  /\ durVec = EmptyMap
  /\ pc = [h \in Handlers |-> "idle"]
  /\ statusToCategory = [h \in Handlers |-> EmptyMap]
  /\ issues = [h \in Handlers |-> << >>]
  /\ startAt = [h \in Handlers |-> 0]
  /\ reqLog = [h \in Handlers |-> << >>]
  /\ idx = [h \in Handlers |-> 0]
  /\ statusDurations = [h \in Handlers |-> EmptyMap]
  /\ pending = [h \in Handlers |-> {}]
  /\ gauge = [h \in Handlers |-> NoGauge]

Init ==
  /\ ExporterInit
  /\ aggInput = IssueNoHistory
  /\ aggIssue = IssueNoHistory
  /\ aggRun = 0
  /\ aggOut = << >>

\* ------------------------------------------------------------------ actions
\* log.Fatalf in the /metrics handler, log.Fatal in mustTimeParse.
Fatal(h, kind) ==
  /\ pc' = [pc EXCEPT ![h] = "fatal"]
  /\ procState' = "exited"
  /\ lastErr' = kind

\* net/http accepts a /metrics request and runs the handler in a goroutine.
\* Goroutines are interchangeable: the request takes the first idle one.
MetricsRequest(h) ==
  /\ procState = "running"
  /\ pc[h] = "idle"
  /\ \A g \in Handlers : g < h => pc[g] # "idle"
  /\ started < MaxRequests
  /\ started' = started + 1
  /\ pc' = [pc EXCEPT ![h] = "build"]
  /\ UNCHANGED <<procState, lastErr, countVec, durVec, statusToCategory, issues,
                 startAt, reqLog, idx, statusDurations, pending, gauge, aggVars>>

\* The same, when the scraper sends one request at a time.
MetricsRequestSeq(h) ==
  /\ \A g \in Handlers : pc[g] = "idle"
  /\ MetricsRequest(h)

\* updateMetrics, lines 104-109: buildStatusMap.
BuildStatusMapResetFirst(h) ==
  /\ procState = "running"
  /\ pc[h] = "build"
  /\ \E resp \in StatusResponses :
       IF resp.err # "none"
       THEN /\ Fatal(h, resp.err)
            /\ UNCHANGED <<statusToCategory>>
       ELSE /\ statusToCategory' =
                 [statusToCategory EXCEPT ![h] = FillStatusMap(resp.statuses, 1, EmptyMap)]
            /\ pc' = [pc EXCEPT ![h] = "fetch"]
            /\ UNCHANGED <<procState, lastErr>>
  /\ countVec' = ResetVec(countVec)
  /\ durVec' = ResetVec(durVec)
  /\ UNCHANGED <<started, issues, startAt, reqLog, idx,
                 statusDurations, pending, gauge, aggVars>>
BuildStatusMap(h) ==
  /\ procState = "running"
  /\ pc[h] = "build"
  /\ \E resp \in StatusResponses :
       IF resp.err # "none"
       THEN /\ Fatal(h, resp.err)
            /\ UNCHANGED <<statusToCategory>>
       ELSE /\ statusToCategory' =
                 [statusToCategory EXCEPT ![h] = FillStatusMap(resp.statuses, 1, EmptyMap)]
            /\ pc' = [pc EXCEPT ![h] = "fetch"]
            /\ UNCHANGED <<procState, lastErr>>
  /\ UNCHANGED <<started, countVec, durVec, issues, startAt, reqLog, idx,
                 statusDurations, pending, gauge, aggVars>>

\* The number of issues the requests in flight hold.
RECURSIVE InFlightIssues(_, _)
InFlightIssues(iss, H) ==
  IF H = {} THEN 0
  ELSE LET g == CHOOSE x \in H : TRUE IN Len(iss[g]) + InFlightIssues(iss, H \ {g})

\* One iteration of fetchJiraData's loop: request the page at startAt.
FetchJiraData(h) ==
  /\ procState = "running"
  /\ pc[h] = "fetch"
  /\ \E resp \in PageResponses(Len(issues[h]), InFlightIssues(issues, Handlers)) :
       LET issuesChunk == resp.issues
       IN  /\ reqLog' = [reqLog EXCEPT ![h] = Append(@, [startAt |-> startAt[h], resp |-> resp])]
           /\ IF resp.err # "none"
              THEN /\ issues' = [issues EXCEPT ![h] = FetchFailResult(@, issuesChunk)]
                   /\ Fatal(h, resp.err)
                   /\ UNCHANGED startAt
              ELSE IF Len(issuesChunk) = 0
              THEN /\ pc' = [pc EXCEPT ![h] = "resetCount"]
                   /\ UNCHANGED <<issues, startAt, procState, lastErr>>
              ELSE /\ issues' = [issues EXCEPT ![h] = @ \o issuesChunk]
                   /\ startAt' = [startAt EXCEPT ![h] = @ + Len(issuesChunk)]
                   /\ UNCHANGED <<pc, procState, lastErr>>
  /\ UNCHANGED <<started, countVec, durVec, statusToCategory, idx,
                 statusDurations, pending, gauge, aggVars>>

\* updateMetrics line 119: jiraIssueCount.Reset()
ResetCount(h) ==
  /\ procState = "running"
  /\ pc[h] = "resetCount"
  /\ countVec' = ResetVec(countVec)
  /\ gauge' = Orphan(gauge, pc, "inc", countVec')
  /\ pc' = [pc EXCEPT ![h] = "resetHours"]
  /\ UNCHANGED <<procState, lastErr, started, durVec, statusToCategory, issues,
                 startAt, reqLog, idx, statusDurations, pending, aggVars>>

\* updateMetrics line 120: jiraIssueHoursInStatusCount.Reset(), and entry of
\* the range loop over issues.
ResetHours(h) ==
  /\ procState = "running"
  /\ pc[h] = "resetHours"
  /\ durVec' = ResetVec(durVec)
  /\ gauge' = Orphan(gauge, pc, "add", durVec')
  /\ idx' = [idx EXCEPT ![h] = 1]
  /\ pc' = [pc EXCEPT ![h] = IF Len(issues[h]) = 0 THEN "gather" ELSE "transform"]
  /\ UNCHANGED <<procState, lastErr, started, countVec, statusToCategory, issues,
                 startAt, reqLog, statusDurations, pending, aggVars>>

\* The handler goroutine ends: its locals are gone.
HandlerEnds(h) ==
  /\ pc' = [pc EXCEPT ![h] = "idle"]
  /\ statusToCategory' = [statusToCategory EXCEPT ![h] = EmptyMap]
  /\ issues' = [issues EXCEPT ![h] = << >>]
  /\ startAt' = [startAt EXCEPT ![h] = 0]
  /\ reqLog' = [reqLog EXCEPT ![h] = << >>]
  /\ idx' = [idx EXCEPT ![h] = 0]
  /\ statusDurations' = [statusDurations EXCEPT ![h] = EmptyMap]
  /\ pending' = [pending EXCEPT ![h] = {}]
  /\ gauge' = [gauge EXCEPT ![h] = NoGauge]

\* transformDataForPrometheus, lines 272-279, for issues[idx]:
\* jiraIssueCount.With(labels).
WithIssueCount(h) ==
  /\ procState = "running"
  /\ pc[h] = "transform"
  /\ countVec' = With(countVec, CountLabels(issues[h][idx[h]]))
  /\ gauge' = [gauge EXCEPT ![h] = Gauge(CountLabels(issues[h][idx[h]]))]
  /\ pc' = [pc EXCEPT ![h] = "inc"]
  /\ UNCHANGED <<procState, lastErr, started, durVec, statusToCategory, issues,
                 startAt, reqLog, idx, statusDurations, pending, aggVars>>

\* Line 279: .Inc() on the gauge With returned.
IncIssueCount(h) ==
  /\ procState = "running"
  /\ pc[h] = "inc"
  /\ countVec' = Add(countVec, gauge[h], 1)
  /\ gauge' = [gauge EXCEPT ![h] = NoGauge]
  /\ pc' = [pc EXCEPT ![h] = "aggregate"]
  /\ UNCHANGED <<procState, lastErr, started, durVec, statusToCategory, issues,
                 startAt, reqLog, idx, statusDurations, pending, aggVars>>

\* transformDataForPrometheus, lines 280-292: the in-place reversal of the
\* histories and the duration map. A timestamp that does not parse exits the
\* process; a status item whose fromString is not a string panics, net/http
\* recovers the panic and only this request ends.
ComputeStatusDurations(h) ==
  /\ procState = "running"
  /\ pc[h] = "aggregate"
  /\ LET issue == issues[h][idx[h]]
         res == StatusDurations(issue)
     IN  IF res.out = "fatal"
         THEN /\ Fatal(h, "TimestampParseError")
              /\ issues' = [issues EXCEPT ![h][idx[h]].histories = Reverse(@)]
              /\ UNCHANGED <<idx, statusDurations, pending, gauge,
                             statusToCategory, startAt, reqLog>>
         ELSE IF res.out = "panic"
         THEN /\ HandlerEnds(h)
              /\ lastErr' = "Panic"
              /\ UNCHANGED procState
         ELSE /\ UNCHANGED <<procState, lastErr, statusToCategory, startAt, reqLog, gauge>>
              /\ issues' = [issues EXCEPT ![h][idx[h]].histories = Reverse(@)]
              /\ pending' = [pending EXCEPT ![h] = DOMAIN res.durs]
              /\ IF DOMAIN res.durs = {}
                 THEN /\ idx' = [idx EXCEPT ![h] = @ + 1]
                      /\ pc' = [pc EXCEPT ![h] =
                                  IF idx[h] = Len(issues[h]) THEN "gather" ELSE "transform"]
                      /\ UNCHANGED statusDurations
                 ELSE /\ statusDurations' = [statusDurations EXCEPT ![h] = res.durs]
                      /\ pc' = [pc EXCEPT ![h] = "publish"]
                      /\ UNCHANGED idx
  /\ UNCHANGED <<started, countVec, durVec, aggVars>>

\* transformDataForPrometheus, lines 293-305: the range loop over
\* statusDurations takes a next status (Go's map iteration order is
\* unspecified), looks its category up and calls
\* jiraIssueHoursInStatusCount.With(labels).
WithDuration(h) ==
  /\ procState = "running"
  /\ pc[h] = "publish"
  /\ LET issue == issues[h][idx[h]]
     IN  \E status \in pending[h] :
           IF status \notin DOMAIN statusToCategory[h]
           THEN /\ Fatal(h, "UnknownStatusError")
                /\ UNCHANGED <<durVec, gauge>>
           ELSE LET lab == HoursLabels(issue, status, statusToCategory[h][status])
                IN  /\ durVec' = With(durVec, lab)
                    /\ gauge' = [gauge EXCEPT ![h] = Gauge(lab)]
                    /\ pc' = [pc EXCEPT ![h] = "add"]
                    /\ UNCHANGED <<procState, lastErr>>
  /\ UNCHANGED <<started, countVec, statusToCategory, issues, startAt, reqLog,
                 idx, statusDurations, pending, aggVars>>

\* Line 305: .Add(duration.Hours()) on the gauge With returned, and the next
\* iteration of the range loop or the return to updateMetrics' loop.
PublishDuration(h) ==
  /\ procState = "running"
  /\ pc[h] = "add"
  /\ LET status == gauge[h].lab.status
     IN  /\ durVec' = Add(durVec, gauge[h], statusDurations[h][status])
         /\ gauge' = [gauge EXCEPT ![h] = NoGauge]
         /\ pending' = [pending EXCEPT ![h] = @ \ {status}]
         /\ IF pending[h] = {status}
            THEN /\ idx' = [idx EXCEPT ![h] = @ + 1]
                 /\ statusDurations' = [statusDurations EXCEPT ![h] = EmptyMap]
                 /\ pc' = [pc EXCEPT ![h] =
                             IF idx[h] = Len(issues[h]) THEN "gather" ELSE "transform"]
            ELSE /\ pc' = [pc EXCEPT ![h] = "publish"]
                 /\ UNCHANGED <<idx, statusDurations>>
  /\ UNCHANGED <<procState, lastErr, started, countVec, statusToCategory, issues,
                 startAt, reqLog, aggVars>>

\* The /metrics handler after updateMetrics returned nil: promhttp gathers
\* the registry. The two vectors are collected one after the other, each
\* under its own lock: this is the first collection.
GatherMetrics(h) ==
  /\ procState = "running"
  /\ pc[h] = "gather"
  /\ pc' = [pc EXCEPT ![h] = "respond"]
  /\ UNCHANGED <<sharedVars, statusToCategory, issues, startAt, reqLog, idx,
                 statusDurations, pending, gauge, aggVars>>

\* The second collection and the response; the goroutine ends.
ServeMetrics(h) ==
  /\ procState = "running"
  /\ pc[h] = "respond"
  /\ HandlerEnds(h)
  /\ UNCHANGED <<sharedVars, aggVars>>

Next ==
  \E h \in Handlers :
    \/ MetricsRequest(h)
    \/ BuildStatusMap(h)
    \/ FetchJiraData(h)
    \/ ResetCount(h)
    \/ ResetHours(h)
    \/ WithIssueCount(h)
    \/ IncIssueCount(h)
    \/ ComputeStatusDurations(h)
    \/ WithDuration(h)
    \/ PublishDuration(h)
    \/ GatherMetrics(h)
    \/ ServeMetrics(h)

\* Requests may overlap: net/http serves each in its own goroutine.
Spec == Init /\ [][Next]_vars

SeqNext ==
  \E h \in Handlers :
    \/ MetricsRequestSeq(h)
    \/ BuildStatusMap(h)
    \/ FetchJiraData(h)
    \/ ResetCount(h)
    \/ ResetHours(h)
    \/ WithIssueCount(h)
    \/ IncIssueCount(h)
    \/ ComputeStatusDurations(h)
    \/ WithDuration(h)
    \/ PublishDuration(h)
    \/ GatherMetrics(h)
    \/ ServeMetrics(h)

\* One request at a time.
SeqSpec == Init /\ [][SeqNext]_vars

\* ------------------------------------------------ aggregation on its own
Zones == {0, 1}
AggStatuses == {"A", "B"}
AggItemLists ==
  {<<OtherItem>>} \cup {<<StatusItem(s)>> : s \in AggStatuses}
  \cup {<<StatusItem("A"), OtherItem, StatusItem("B")>>, <<NullStatusItem>>}
AggTimes == {TS(l, z) : l \in 0..MaxTime, z \in Zones}
AggHistories == {History(t, il) : t \in AggTimes, il \in AggItemLists}
AggCreated == {TS(0, z) : z \in Zones}
AggIssues ==
  {[IssueNoHistory EXCEPT !.created = c, !.histories = hs] :
     c \in AggCreated, hs \in SeqsUpTo(AggHistories, MaxHist)}

AggInit ==
  /\ ExporterInit
  /\ aggInput \in AggIssues
  /\ aggIssue = aggInput
  /\ aggRun = 0
  /\ aggOut = << >>

\* One call of transformDataForPrometheus' duration computation (lines
\* 280-292) on the caller's issue value; the histories slice is shared with
\* the caller, so the reversal stays.
AggRunStep ==
  /\ aggRun < MaxRuns
  /\ aggOut' = Append(aggOut, StatusDurations(aggIssue))
  /\ aggIssue' = [aggIssue EXCEPT !.histories = Reverse(@)]
  /\ aggRun' = aggRun + 1
  /\ UNCHANGED <<aggInput, sharedVars, localVars>>

AggNext == AggRunStep

AggSpec == AggInit /\ [][AggNext]_vars

\* ------------------------------------------- what the claims speak about
\* The status changes of an issue in chronological order: the histories as
\* delivered (newest first) read backwards, each history's status items in
\* their order, as [t |-> instant, s |-> previous status].
RECURSIVE StatusChangesFrom(_, _)
StatusChangesFrom(hs, i) ==
  IF i < 1 THEN << >>
  ELSE LET st == SelectSeq(hs[i].items, LAMBDA it : it.field = "status")
       IN  [k \in 1..Len(st) |-> [t |-> MustTimeParse(hs[i].created), s |-> st[k].fromString.str]]
           \o StatusChangesFrom(hs, i - 1)
StatusChanges(issue) == StatusChangesFrom(issue.histories, Len(issue.histories))

RECURSIVE SumFn(_, _)
SumFn(f, S) ==
  IF S = {} THEN 0
  ELSE LET x == CHOOSE y \in S : TRUE IN f[x] + SumFn(f, S \ {x})

\* For each previous status S the sum of T(i) - T(i-1) over the changes i
\* that leave S, with T(0) the creation time.
ClaimedDurations(issue) ==
  LET ch == StatusChanges(issue)
      T(i) == IF i = 0 THEN MustTimeParse(issue.created) ELSE ch[i].t
      elapsed == [i \in 1..Len(ch) |-> T(i) - T(i - 1)]
  IN  [S \in {ch[i].s : i \in 1..Len(ch)} |->
         SumFn(elapsed, {i \in 1..Len(ch) : ch[i].s = S})]

\* The histories are delivered newest first.
NewestFirst(issue) ==
  \A i, j \in 1..Len(issue.histories) :
    i < j => MustTimeParse(issue.histories[i].created)
               >= MustTimeParse(issue.histories[j].created)

NoStatusItem(issue) ==
  \A i \in 1..Len(issue.histories) :
    \A j \in 1..Len(issue.histories[i].items) :
      issue.histories[i].items[j].field # "status"

\* Issue i of request h had its histories reversed by transformDataForPrometheus.
Transformed(h, i) == i < idx[h] \/ (i = idx[h] /\ pc[h] \in {"publish", "add", "fatal"})

\* The issues of request h as the fetch delivered them.
Fetched(h) ==
  [i \in 1..Len(issues[h]) |->
     IF Transformed(h, i) THEN [issues[h][i] EXCEPT !.histories = Reverse(@)]
     ELSE issues[h][i]]

\* The count series a list of issues stands for.
ExpectedCount(L) ==
  [lab \in {CountLabels(L[i]) : i \in 1..Len(L)} |->
     Cardinality({i \in 1..Len(L) : CountLabels(L[i]) = lab})]

\* The duration series a set of facts <<i, status>> of the issues L stands for.
ExpectedHoursOf(L, cat, facts) ==
  LET lab(f) == HoursLabels(L[f[1]], f[2], cat[f[2]])
      hours == [f \in facts |-> ClaimedDurations(L[f[1]])[f[2]]]
  IN  [l \in {lab(f) : f \in facts} |-> SumFn(hours, {f \in facts : lab(f) = l})]

FactsUpTo(L, n) ==
  {<<i, s>> \in (1..n) \X {"Open", "InProgress", "Done", "Blocked"} :
     s \in DOMAIN ClaimedDurations(L[i])}

ExpectedHours(L, cat) == ExpectedHoursOf(L, cat, FactsUpTo(L, Len(L)))

RECURSIVE ConcatPages(_, _)
ConcatPages(log, n) ==
  IF n = 0 THEN << >> ELSE ConcatPages(log, n - 1) \o log[n].resp.issues

FetchSucceeded(h) ==
  pc[h] \in {"resetCount", "resetHours", "transform", "inc", "aggregate", "publish", "add",
             "gather", "respond"}

\* Every status item of the issue carries a string as fromString.
AllFromStrings(issue) ==
  \A i \in 1..Len(issue.histories) :
    \A j \in 1..Len(issue.histories[i].items) :
      issue.histories[i].items[j].field = "status"
        => issue.histories[i].items[j].fromString.isString

\* Between the Reset calls and the end of the publish loop.
InRefreshWindow(h) ==
  pc[h] \in {"resetHours", "transform", "inc", "aggregate", "publish", "add"}

RefreshErrors == {"FetchError", "DecodeError", "TimestampParseError", "UnknownStatusError"}

\* ------------------------------------------------------------------ claims

\* C1: for an issue whose status changes in chronological order happen at
\* T1 <= ... <= Tn with previous statuses S1..Sn, the duration map gives each
\* status S the sum of Ti - T(i-1) over the i with Si = S, and has no entry
\* for a status that is never a previous value.
C1_DurationsAreIntervalSums ==
  (aggRun >= 1 /\ NewestFirst(aggInput) /\ AllFromStrings(aggInput))
    => aggOut[1] = [out |-> "ok", durs |-> ClaimedDurations(aggInput)]

C1_Witness ==
  /\ aggRun >= 1
  /\ aggInput.created = TS(0, 1)
  /\ aggInput.histories = << History(TS(2, 0), <<StatusItem("B")>>),
                             History(TS(0, 0), <<StatusItem("A")>>) >>
  /\ aggOut[1].out = "ok"
  /\ DOMAIN aggOut[1].durs = {"A", "B"}
  /\ aggOut[1].durs["A"] = 1
  /\ aggOut[1].durs["B"] = 2

\* C2: when the catalog lacks a status of an issue's history, publishing the
\* issue fails with the unknown-status error and the duration series got no
\* addition at all for that issue.
C2_NoPartialDuration ==
  \A h \in Handlers :
    (pc[h] = "fatal" /\ lastErr = "UnknownStatusError")
      => durVec = ExpectedHoursOf(Fetched(h), statusToCategory[h],
                                  FactsUpTo(Fetched(h), idx[h] - 1))

\* C3: an error of a refresh cycle aborts that cycle only; the process keeps
\* running.
C3_RefreshErrorsNotFatal ==
  lastErr \in RefreshErrors => procState = "running"

\* C4: a scrape never reads a vector while another request is between its
\* Reset calls and the end of its publish loop.
C4_ScrapeOutsideRefreshWindow ==
  [][\A h \in Handlers :
       (GatherMetrics(h) \/ ServeMetrics(h))
         => \A g \in Handlers \ {h} : ~InRefreshWindow(g)]_vars

\* C5: when a refresh cycle completes, no other cycle is in flight and no
\* cycle has failed, the series are exactly what the issues and catalog of
\* that cycle stand for, also when cycles overlapped before.
C5_QuiescentSeriesMatchLastCycle ==
  [][\A h \in Handlers :
       (/\ pc[h] \in {"resetHours", "aggregate", "add"}
        /\ pc'[h] = "gather"
        /\ lastErr' = "none"
        /\ \A g \in Handlers \ {h} : pc[g] \in {"idle", "gather", "respond"})
       => /\ countVec' = ExpectedCount(Fetched(h)')
          /\ durVec' = ExpectedHours(Fetched(h)', statusToCategory[h])]_vars

\* C6: with one request at a time, once a cycle completed the series are
\* exactly what that cycle's issues and catalog stand for; nothing of an
\* earlier cycle remains.
C6_SeriesOfThisCycleOnly ==
  \A h \in Handlers :
    pc[h] \in {"gather", "respond"}
      => /\ countVec = ExpectedCount(Fetched(h))
         /\ durVec = ExpectedHours(Fetched(h), statusToCategory[h])

C6_Witness ==
  \E h \in Handlers :
    /\ pc[h] = "gather"
    /\ started = 2
    /\ Fetched(h) = <<IssueNoHistory>>
    /\ DOMAIN countVec = {CountLabels(IssueNoHistory)}
    /\ durVec = EmptyMap

\* C7: the offsets requested are 0 and then the number of issues received so
\* far; the fetch stops at the first empty page and returns the pages in
\* request order, or, when a request fails, no issues at all.
C7_PaginationAllOrNothing ==
  \A h \in Handlers :
    LET log == reqLog[h]
        n == Len(log)
    IN  /\ \A i \in 1..n : log[i].startAt = Len(ConcatPages(log, i - 1))
        /\ \A i \in 1..(n - 1) : log[i].resp.err = "none" /\ Len(log[i].resp.issues) > 0
        /\ pc[h] = "fetch"
             => /\ issues[h] = ConcatPages(log, n)
                /\ startAt[h] = Len(issues[h])
                /\ n > 0 => (log[n].resp.err = "none" /\ Len(log[n].resp.issues) > 0)
        /\ (FetchSucceeded(h) \/ (pc[h] = "fatal" /\ idx[h] >= 1))
             => /\ n >= 1
                /\ log[n].resp = [err |-> "none", issues |-> << >>]
                /\ Fetched(h) = ConcatPages(log, n)
        /\ (pc[h] = "fatal" /\ n >= 1 /\ idx[h] = 0)
             => /\ log[n].resp.err \in RequestErrors
                /\ issues[h] = << >>

C7_Witness ==
  \E h \in Handlers :
    /\ pc[h] = "fatal"
    /\ Len(reqLog[h]) = 2
    /\ Len(reqLog[h][1].resp.issues) = 1
    /\ reqLog[h][2].startAt = 1
    /\ reqLog[h][2].resp.err = "DecodeError"
    /\ Len(reqLog[h][2].resp.issues) = 1
    /\ issues[h] = << >>

\* C8: running the aggregation twice in a row on the same issue value gives
\* the same duration map both times.
C8_AggregationIdempotent ==
  aggRun = 2 => aggOut[2] = aggOut[1]

\* C9: for every fetched issue, With creates at most the count series of the
\* issue's own labels (at 0) and changes no value, Inc then adds exactly 1 to
\* exactly that series, whatever the issue's history, and neither they nor
\* the duration computation change a duration series; an issue without a
\* status item gets an empty duration map and goes on without publishing; at
\* the end of a cycle the count series add up to the number of fetched issues.
C9_OneCountPerIssue ==
  /\ [][\A h \in Handlers :
          /\ (pc[h] = "transform" /\ pc'[h] # "transform")
               => LET own == CountLabels(issues[h][idx[h]])
                  IN  /\ pc'[h] = "inc"
                      /\ DOMAIN countVec' = DOMAIN countVec \cup {own}
                      /\ \A l \in DOMAIN countVec' :
                           countVec'[l] = (IF l \in DOMAIN countVec THEN countVec[l] ELSE 0)
                      /\ durVec' = durVec
          /\ (pc[h] = "inc" /\ pc'[h] # "inc")
               => LET own == CountLabels(issues[h][idx[h]])
                  IN  /\ DOMAIN countVec' = DOMAIN countVec
                      /\ own \in DOMAIN countVec
                      /\ \A l \in DOMAIN countVec' :
                           countVec'[l] = countVec[l] + (IF l = own THEN 1 ELSE 0)
                      /\ durVec' = durVec
          /\ (pc[h] = "aggregate" /\ pc'[h] # "aggregate")
               => /\ countVec' = countVec
                  /\ durVec' = durVec
                  /\ (NoStatusItem(issues[h][idx[h]]) /\ pc'[h] # "fatal")
                       => /\ statusDurations'[h] = EmptyMap
                          /\ pending'[h] = {}
                          /\ pc'[h] \in {"transform", "gather"}
                          /\ idx'[h] = idx[h] + 1]_vars
  /\ [](\A h \in Handlers :
          pc[h] = "gather"
            => SumFn(countVec, DOMAIN countVec) = Len(issues[h]))

C9_Witness ==
  \E h \in Handlers :
    /\ pc[h] = "gather"
    /\ Fetched(h) = <<IssueNoHistory, IssueNoHistory>>
    /\ countVec[CountLabels(IssueNoHistory)] = 2
    /\ durVec = EmptyMap

\* C10: the catalog build and the fetch, failing or not, leave every count
\* and duration series untouched; a cycle that fails while publishing leaves
\* the counts of the issues it reached and the durations it had added.
C10_ResetOnlyAfterFetch ==
  /\ [][\A h \in Handlers :
          (pc[h] \in {"build", "fetch"} /\ (pc'[h] # pc[h] \/ reqLog'[h] # reqLog[h]))
          => (countVec' = countVec /\ durVec' = durVec)]_vars
  /\ [](\A h \in Handlers :
          (pc[h] = "fatal" /\ idx[h] >= 1)
            => /\ countVec = ExpectedCount(SubSeq(Fetched(h), 1, idx[h]))
               /\ durVec = ExpectedHoursOf(Fetched(h), statusToCategory[h],
                             FactsUpTo(Fetched(h), idx[h] - 1)
                             \cup {<<idx[h], s>> : s \in DOMAIN statusDurations[h] \ pending[h]}))

C10_Witness ==
  \E h \in Handlers :
    /\ pc[h] = "fatal"
    /\ idx[h] = 0
    /\ Len(reqLog[h]) = 2
    /\ reqLog[h][2].resp.err = "FetchError"
    /\ countVec = ExpectedCount(<<IssueDone>>)
    /\ durVec = ExpectedHours(<<IssueDone>>, FillStatusMap(CHOOSE l \in StatusLists : Len(l) = 3, 1, EmptyMap))

====
